---- MODULE Spec2Model ----
(***************************************************************************)
(* A model of truth-table.py: the expression tree (Prop, Not, Conj, Disj,  *)
(* Cond, Bicond) with its rendering and evaluation, the string-rewriting   *)
(* parser (paren, simple, tmp_replace, parse) and the table generator.     *)
(*                                                                         *)
(* Python strings are sequences of one-character strings.  A tree is a     *)
(* record whose field k names its class; Python's None is [k |-> "None"].  *)
(***************************************************************************)
EXTENDS Integers, Sequences, FiniteSets, TLC

(***************************************************************************)
(* Bounds of the model.                                                    *)
(***************************************************************************)
\* binary operations in the generated parser inputs
MaxOps == 1
\* length of the working string past which a parse run counts as exhausted
MaxWork == 60
\* top-level parse calls in one process
MaxCalls == 2
\* operator nodes (Not or binary) in the trees handed to eval
MaxEvalOps == 2
\* operator nodes in the trees handed to table
MaxTableOps == 2

(***************************************************************************)
(* Characters and the character classes of the regular expressions.        *)
(***************************************************************************)
Lower ==
    {"a","b","c","d","e","f","g","h","i","j","k","l","m",
     "n","o","p","q","r","s","t","u","v","w","x","y","z"}
Upper ==
    {"A","B","C","D","E","F","G","H","I","J","K","L","M",
     "N","O","P","Q","R","S","T","U","V","W","X","Y","Z"}
Digit == {"0","1","2","3","4","5","6","7","8","9"}

\* [a-uw-zA-Z]
NameStartChars == (Lower \ {"v"}) \cup Upper
\* [a-uw-zA-Z_0-9]
NameChars == NameStartChars \cup Digit \cup {"_"}

NEG == "¬"
TMP == <<"t", "m", "p">>

(***************************************************************************)
(* The tree classes.                                                       *)
(***************************************************************************)
BinKinds == {"Disj", "Conj", "Cond", "Bicond"}

None == [k |-> "None"]
Prop(name) == [k |-> "Prop", name |-> name]
Not(r) == [k |-> "Not", r |-> r]
BinOp(kind, l, r) == [k |-> kind, l |-> l, r |-> r]

\* the symbol attribute set by each binary class's constructor
Symbol(kind) ==
    CASE kind = "Disj" -> <<"v">>
      [] kind = "Conj" -> <<"^">>
      [] kind = "Cond" -> <<"-", ">">>
      [] kind = "Bicond" -> <<"<", "-", ">">>

\* attribute presence: which classes have .r, .l, .name
HasR(x) == x.k = "Not" \/ x.k \in BinKinds
HasL(x) == x.k \in BinKinds
HasName(x) == x.k = "Prop"

\* Python truthiness of a tree reference: None is falsy, an object is truthy
Truthy(x) == x.k # "None"

RECURSIVE Str(_)
\* str(): Prop.__str__, Not.__str__, BinOp.__str__, and "None" for None
Str(t) ==
    CASE t.k = "None" -> <<"N", "o", "n", "e">>
      [] t.k = "Prop" -> t.name
      [] t.k = "Not" -> <<NEG>> \o Str(t.r)
      [] OTHER -> <<"(">> \o Str(t.l) \o <<" ">> \o Symbol(t.k) \o <<" ">>
                    \o Str(t.r) \o <<")">>

(***************************************************************************)
(* String primitives: find, search, split, replace.                        *)
(***************************************************************************)
\* whether pat occurs in s at index i (1-based)
MatchAt(pat, s, i) ==
    /\ i >= 1
    /\ i + Len(pat) - 1 <= Len(s)
    /\ \A j \in 1..Len(pat) : s[i + j - 1] = pat[j]

\* index of the first occurrence of pat in s at or after index from; 0 if none
FindFrom(pat, s, from) ==
    LET hits == {i \in from..(Len(s) - Len(pat) + 1) : MatchAt(pat, s, i)}
    IN  IF hits = {} THEN 0 ELSE CHOOSE i \in hits : \A j \in hits : i <= j

\* re.search of a literal pattern
Search(pat, s) == FindFrom(pat, s, 1) # 0

\* element 0 of re.split(pat, s) / s.split(pat): the text before the first pat
SplitFirst(pat, s) ==
    LET i == FindFrom(pat, s, 1)
    IN  IF i = 0 THEN s ELSE SubSeq(s, 1, i - 1)

\* element 1 of re.split(pat, s) / s.split(pat): the text between the first
\* occurrence of pat and the next one (or the end)
SplitSecond(pat, s) ==
    LET i == FindFrom(pat, s, 1)
        rest == SubSeq(s, i + Len(pat), Len(s))
    IN  SplitFirst(pat, rest)

RECURSIVE Replace(_, _, _)
\* str.replace(old, new): every non-overlapping occurrence, left to right; an
\* empty old matches before every character and at the end
Replace(s, old, new) ==
    IF old = <<>>
    THEN IF s = <<>> THEN new
         ELSE new \o <<Head(s)>> \o Replace(Tail(s), old, new)
    ELSE LET i == FindFrom(old, s, 1)
         IN  IF i = 0 THEN s
             ELSE SubSeq(s, 1, i - 1) \o new
                    \o Replace(SubSeq(s, i + Len(old), Len(s)), old, new)

(***************************************************************************)
(* The compiled regular expressions, each as the predicate fullmatch       *)
(* computes.                                                               *)
(***************************************************************************)
\* fullmatch of [a-uw-zA-Z][a-uw-zA-Z_0-9]*
NameRe(s) ==
    /\ Len(s) >= 1
    /\ s[1] \in NameStartChars
    /\ \A i \in 2..Len(s) : s[i] \in NameChars

\* s without one leading "(" and one trailing ")", the optional \(? and \)?
Unwrap(s) ==
    LET lo == IF Len(s) >= 1 /\ s[1] = "(" THEN 2 ELSE 1
        hi == IF Len(s) >= 1 /\ s[Len(s)] = ")" THEN Len(s) - 1 ELSE Len(s)
    IN  SubSeq(s, lo, hi)

\* re.fullmatch(prop, s): \(?[a-uw-zA-Z][a-uw-zA-Z_0-9]*\)?
PropFull(s) == NameRe(Unwrap(s))

\* re.fullmatch(tmpre, s): \(?tmp\)?
TmpFull(s) == Unwrap(s) = TMP

\* re.fullmatch(neg, s): [ \(]*¬[a-uw-zA-Z\(][a-uw-zA-Z_0-9]*\)?
NegFull(s) ==
    LET j == FindFrom(<<NEG>>, s, 1)
        n == Len(s)
        hi == IF n >= j + 2 /\ s[n] = ")" THEN n - 1 ELSE n
    IN  /\ j # 0
        /\ \A i \in 1..(j - 1) : s[i] \in {" ", "("}
        /\ n >= j + 1
        /\ s[j + 1] \in NameStartChars \cup {"("}
        /\ \A i \in (j + 2)..hi : s[i] \in NameChars

\* re.fullmatch(r"¬tmp", s)
NegTmpFull(s) == s = <<NEG>> \o TMP

\* re.findall(r"[a-uw-zA-Z][a-uw-zA-Z_0-9]*", s)[0]: the leftmost match, as long
\* as it can be
FirstName(s) ==
    LET starts == {i \in 1..Len(s) : s[i] \in NameStartChars}
        b == CHOOSE i \in starts : \A j \in starts : i <= j
        stops == {i \in b..Len(s) : i = Len(s) \/ s[i + 1] \notin NameChars}
        e == CHOOSE i \in stops : \A j \in stops : i <= j
    IN  SubSeq(s, b, e)

RECURSIVE FindAllNames(_)
\* set(re.findall(r"[a-uw-zA-Z][a-uw-zA-Z_0-9]*", s)): every match, scanning
\* left to right, each as long as it can be
FindAllNames(s) ==
    LET starts == {i \in 1..Len(s) : s[i] \in NameStartChars}
    IN  IF starts = {} THEN {}
        ELSE LET b == CHOOSE i \in starts : \A j \in starts : i <= j
                 name == FirstName(s)
             IN  {name} \cup FindAllNames(SubSeq(s, b + Len(name), Len(s)))

\* biops, in list order, each with the text its pattern matches
BiOps ==
    << [pat |-> <<" ", "v", " ">>, kind |-> "Disj"],
       [pat |-> <<" ", "^", " ">>, kind |-> "Conj"],
       [pat |-> <<" ", "-", ">", " ">>, kind |-> "Cond"],
       [pat |-> <<" ", "<", "-", ">", " ">>, kind |-> "Bicond"] >>

(***************************************************************************)
(* paren, simple, tmp_replace.                                             *)
(***************************************************************************)
\* paren(str1): from the first ")" back to the nearest "(" before it, or to the
\* start of the string when there is none; "" when there is no ")"
Paren(str1) ==
    LET close == FindFrom(<<")">>, str1, 1)
        opens == {i \in 1..close : str1[i] = "("}
        open == IF opens = {} THEN 1
                ELSE CHOOSE i \in opens : \A j \in opens : i >= j
    IN  IF close = 0 THEN <<>> ELSE SubSeq(str1, open, close)

RECURSIVE Simple(_)
\* simple(exp); falling off the end of the function returns None
Simple(exp) ==
    IF TmpFull(exp) THEN Prop(TMP)
    ELSE IF PropFull(exp) THEN Prop(FirstName(exp))
    ELSE IF NegFull(exp) THEN Not(Simple(SplitSecond(<<NEG>>, exp)))
    ELSE LET found == {i \in 1..Len(BiOps) : Search(BiOps[i].pat, exp)}
         IN  IF found = {} THEN None
             ELSE LET x == BiOps[CHOOSE i \in found : \A j \in found : i <= j]
                  IN  BinOp(x.kind, Simple(SplitFirst(x.pat, exp)),
                            Simple(SplitSecond(x.pat, exp)))

\* x.name == "tmp", where reading .name of anything but a Prop raises
\* AttributeError (swallowed by the enclosing try block)
IsTmp(x) == HasName(x) /\ x.name = TMP

\* tmp_replace(main, tree): the tree after the in-place assignment, and the
\* value returned
TmpReplace(main, tree) ==
    IF HasR(main) /\ IsTmp(main.r)
    THEN [t |-> [main EXCEPT !.r = tree], flag |-> TRUE]
    ELSE IF HasR(main) /\ main.r.k = "Not" /\ IsTmp(main.r.r)
    THEN [t |-> [main EXCEPT !.r.r = tree], flag |-> TRUE]
    ELSE IF HasL(main) /\ main.l.k = "Not" /\ IsTmp(main.l.r)
    THEN [t |-> [main EXCEPT !.l.r = tree], flag |-> TRUE]
    ELSE IF HasL(main) /\ IsTmp(main.l)
    THEN [t |-> [main EXCEPT !.l = tree], flag |-> TRUE]
    ELSE IF HasR(main) /\ HasL(main.r) /\ main.r.l.k = "Not" /\ IsTmp(main.r.l.r)
    THEN [t |-> [main EXCEPT !.r.l.r = tree], flag |-> TRUE]
    ELSE [t |-> main, flag |-> FALSE]

(***************************************************************************)
(* State.                                                                  *)
(***************************************************************************)
VARIABLES
    dstack,    \* the list object bound to parse's default argument stack=[None]
    pc,        \* "idle", "descend" (a parse frame runs down to its recursive
               \* call or its return), "unwind" (a frame resumes after the
               \* recursive call returned), "done"
    exp,       \* the working string of the running frame
    depth,     \* the frames waiting for their recursive call to return
    result,    \* the value the last frame returned
    outcome,   \* how the top-level call ended: "ok", "IndexError", "Exhausted"
    input,     \* the argument of the top-level call
    ncalls,    \* the top-level calls made so far in this process
    formula,   \* the tree handed to eval or table
    env,       \* the assignment handed to eval
    assume,    \* the fixed values handed to table, in dict order
    phase,     \* eval / table: "ready", then "done"
    value,     \* what eval returned or raised
    printed    \* the lines table printed, and whether it raised

pvars == <<dstack, pc, exp, depth, result, outcome, input, ncalls>>
evars == <<formula, env, assume, phase, value, printed>>
vars == <<dstack, pc, exp, depth, result, outcome, input, ncalls,
          formula, env, assume, phase, value, printed>>

(***************************************************************************)
(* parse, one frame at a time.  A configuration is the part of the state   *)
(* the frames read and write.                                              *)
(***************************************************************************)
Last(s) == s[Len(s)]
Front(s) == SubSeq(s, 1, Len(s) - 1)

\* an exception leaves every frame at once: nothing in parse catches it
Raise(cfg, what) == [cfg EXCEPT !.pc = "done", !.outcome = what]

\* "return tmp" of a frame: to the frame waiting above it, or to the caller
Return(cfg, stack, tree) ==
    [cfg EXCEPT !.stack = stack, !.result = tree,
                !.pc = IF cfg.depth = 0 THEN "done" ELSE "unwind",
                !.outcome = IF cfg.depth = 0 THEN "ok" ELSE cfg.outcome]

\* the else branch of parse up to the recursive call: reduce the innermost group
Reduce(cfg, stack, tree) ==
    LET group == Paren(cfg.exp)
        tmp == Simple(group)
        rep == IF Truthy(tree) THEN TmpReplace(tmp, tree)
               ELSE [t |-> tmp, flag |-> TRUE]
        kept == IF Truthy(tree) /\ ~rep.flag THEN Append(stack, tree) ELSE stack
        next == Replace(cfg.exp, group, TMP)
    IN  IF Len(next) > MaxWork
        THEN Raise([cfg EXCEPT !.stack = Append(kept, rep.t), !.exp = next],
                   "Exhausted")
        ELSE [cfg EXCEPT !.stack = Append(kept, rep.t), !.exp = next,
                         !.depth = cfg.depth + 1]

\* parse(exp, stack) from its first line to its return or its recursive call
Descend(cfg) ==
    IF cfg.stack = <<>> THEN Raise(cfg, "IndexError")
    ELSE LET tree == Last(cfg.stack)
             stack == Front(cfg.stack)
         IN  IF Paren(cfg.exp) = cfg.exp
             THEN IF Truthy(tree)
                  THEN Return(cfg, stack, TmpReplace(Simple(cfg.exp), tree).t)
                  ELSE Return(cfg, stack, Simple(cfg.exp))
             ELSE IF NegTmpFull(cfg.exp)
             THEN Return(cfg, stack, [Simple(cfg.exp) EXCEPT !.r = tree])
             ELSE IF PropFull(cfg.exp) \/ NegFull(cfg.exp)
             THEN Return(cfg, stack, Simple(cfg.exp))
             ELSE Reduce(cfg, stack, tree)

\* parse after "result = parse(exp, stack=stack)": patch the result and return it
Unwind(cfg) ==
    LET up == [cfg EXCEPT !.depth = cfg.depth - 1]
    IN  IF Search(TMP, Str(cfg.result))
        THEN IF cfg.stack = <<>> THEN Raise(cfg, "IndexError")
             ELSE Return(up, Front(cfg.stack),
                         TmpReplace(cfg.result, Last(cfg.stack)).t)
        ELSE Return(up, cfg.stack, cfg.result)

ParseStep(cfg) == IF cfg.pc = "descend" THEN Descend(cfg) ELSE Unwind(cfg)

RECURSIVE Run(_)
\* a call run to its end
Run(cfg) == IF cfg.pc = "done" THEN cfg ELSE Run(ParseStep(cfg))

\* the configuration of a top-level call parse(text) that finds `stack` bound
\* to the default argument
Enter(text, stack) ==
    [pc |-> "descend", exp |-> text, stack |-> stack, depth |-> 0,
     result |-> None, outcome |-> "none"]

\* parse(text) as the first call of a process: the default argument is [None]
ParseFirst(text) == Run(Enter(text, <<None>>))

(***************************************************************************)
(* The surface grammar, read by recursive descent: the reference the       *)
(* parser is compared with.                                                *)
(*   <expr> ::= <prop> | <neg> | <op>                                      *)
(*   <neg>  ::= "¬" <prop> | "¬" <op>                                      *)
(*   <op>   ::= "(" <expr> <sym> <expr> ")"                                *)
(* A proposition may be wrapped in one pair of parentheses.                *)
(***************************************************************************)
Fail == [ok |-> FALSE]
Got(t, next) == [ok |-> TRUE, t |-> t, next |-> next]

\* a letter other than "v", then letters, digits and "_"; never exactly "tmp"
RdProp(s, i) ==
    LET word == Lower \cup Upper \cup Digit \cup {"_"}
        stops == {e \in i..Len(s) : e = Len(s) \/ s[e + 1] \notin word}
        e == CHOOSE x \in stops : \A y \in stops : x <= y
    IN  IF i <= Len(s) /\ s[i] \in (Lower \cup Upper) \ {"v"}
             /\ SubSeq(s, i, e) # TMP
        THEN Got(Prop(SubSeq(s, i, e)), e + 1)
        ELSE Fail

RdAtom(s, i) ==
    IF i <= Len(s) /\ s[i] = "("
    THEN LET p == RdProp(s, i + 1)
         IN  IF p.ok /\ p.next <= Len(s) /\ s[p.next] = ")"
             THEN Got(p.t, p.next + 1)
             ELSE Fail
    ELSE RdProp(s, i)

RECURSIVE RdExpr(_, _), RdOp(_, _)
RdOp(s, i) ==
    IF i <= Len(s) /\ s[i] = "("
    THEN LET l == RdExpr(s, i + 1)
         IN  IF ~l.ok THEN Fail
             ELSE LET syms == {x \in 1..Len(BiOps) : MatchAt(BiOps[x].pat, s, l.next)}
                  IN  IF syms = {} THEN Fail
                      ELSE LET x == BiOps[CHOOSE y \in syms : TRUE]
                               r == RdExpr(s, l.next + Len(x.pat))
                           IN  IF r.ok /\ r.next <= Len(s) /\ s[r.next] = ")"
                               THEN Got(BinOp(x.kind, l.t, r.t), r.next + 1)
                               ELSE Fail
    ELSE Fail

RdExpr(s, i) ==
    IF i <= Len(s) /\ s[i] = NEG
    THEN LET o == RdOp(s, i + 1)
             a == IF o.ok THEN o ELSE RdAtom(s, i + 1)
         IN  IF a.ok THEN Got(Not(a.t), a.next) ELSE Fail
    ELSE LET o == RdOp(s, i)
         IN  IF o.ok THEN o ELSE RdAtom(s, i)

\* the tree of a whole text, or Fail
RD(s) ==
    LET r == RdExpr(s, 1)
    IN  IF r.ok /\ r.next = Len(s) + 1 THEN r ELSE Fail

WellFormed(s) == RD(s).ok

(***************************************************************************)
(* The texts given to parse.                                               *)
(***************************************************************************)
P == Prop(<<"p">>)
Q == Prop(<<"q">>)
R == Prop(<<"r">>)

RECURSIVE TreesOf(_, _, _, _)
\* the trees over `names` and `kinds` with exactly n binary operations; with
\* negs, any proposition or binary operation may be negated
TreesOf(n, names, kinds, negs) ==
    LET base == IF n = 0 THEN {Prop(x) : x \in names}
                ELSE UNION { {BinOp(c, l, r) :
                                c \in kinds,
                                l \in TreesOf(i, names, kinds, negs),
                                r \in TreesOf(n - 1 - i, names, kinds, negs)} :
                             i \in 0..(n - 1) }
    IN  base \cup (IF negs THEN {Not(b) : b \in base} ELSE {})

TreesUpTo(n, names, kinds, negs) ==
    UNION {TreesOf(i, names, kinds, negs) : i \in 0..n}

\* every well-formed formula of at most MaxOps binary operations over p and q
Generated == {Str(t) : t \in TreesUpTo(MaxOps, {<<"p">>, <<"q">>}, BinKinds, TRUE)}

\* deeper nesting, on either side and under negation
Nested ==
    {Str(t) : t \in
        { BinOp("Conj", BinOp("Disj", P, Q), R),
          BinOp("Conj", R, BinOp("Disj", P, Q)),
          BinOp("Conj", Not(BinOp("Disj", P, Q)), Not(R)),
          BinOp("Cond", R, Not(BinOp("Bicond", Not(P), Q))),
          Not(BinOp("Conj", BinOp("Disj", P, Q), R)),
          BinOp("Conj", BinOp("Disj", P, Q), BinOp("Cond", R, P)),
          BinOp("Conj", BinOp("Disj", P, Q), BinOp("Disj", P, Q)),
          Not(BinOp("Conj", BinOp("Disj", P, Q), BinOp("Cond", R, P))),
          BinOp("Bicond", BinOp("Conj", BinOp("Disj", P, Q), R), Not(Q)),
          BinOp("Bicond", Q, BinOp("Conj", R, BinOp("Disj", P, Q))),
          BinOp("Disj", BinOp("Disj", P, R),
                BinOp("Conj", Not(BinOp("Disj", R, Q)), BinOp("Conj", R, Q))) }}

\* the formulas of no nesting: literals, and one operation on literals,
\* negated or not
Literals == {P, Q, Not(P), Not(Q)}
Flat == {BinOp(c, l, r) : c \in BinKinds, l \in Literals, r \in Literals}
Shallow == {Str(t) : t \in Literals \cup Flat \cup {Not(b) : b \in Flat}}

\* names and wrappers the grammar allows, and texts it does not
Special ==
    { <<"(", "p", ")">>,
      <<"(", "(", "p", ")", " ", "v", " ", "q", ")">>,
      <<NEG, "(", "p", ")">>,
      <<"p", "v">>,
      <<"V">>,
      <<"t", "m", "p", "x">>,
      <<"(", "p", " ", "^", " ", "(", "q", " ", "^", " ", "t", "m", "p", "x", ")", ")">>,
      <<"t", "m", "p">>,
      <<"(", "p", " ", "v", " ", "t", "m", "p", ")">>,
      <<NEG, "t", "m", "p">>,
      <<"v", "x">>,
      <<"1", "p">>,
      <<"p", " ", "q">>,
      <<"(", "p", " ", "&", " ", "q", ")">>,
      <<"(", "p", " ", "v", " ", "q", " ", "v", " ", "r", ")">>,
      <<NEG, NEG, "p">>,
      <<"(", ")">>,
      <<>> }

\* s without its i-th character
DeleteAt(s, i) == SubSeq(s, 1, i - 1) \o SubSeq(s, i + 1, Len(s))

\* every text one character short of a shallow or a nested formula
Damaged == UNION { {DeleteAt(s, i) : i \in 1..Len(s)} : s \in Shallow \cup Nested }

Inputs == Generated \cup Nested \cup Special \cup Damaged

(***************************************************************************)
(* eval.  A call either returns a value or raises.                         *)
(***************************************************************************)
Returned(v) == [raised |-> "none", value |-> v]
Raised(what) == [raised |-> what, value |-> FALSE]

\* a lenient lookup, env.get(self.name, False): what C7 rules out
PropEvalDefault(name, e) ==
    IF name \in DOMAIN e THEN Returned(e[name]) ELSE Returned(FALSE)

\* Prop.eval: env[self.name]
PropEval(name, e) ==
    IF name \in DOMAIN e THEN Returned(e[name]) ELSE Raised("KeyError")

\* the converse conditional, operands exchanged: what C6 rules out
CondLambdaConverse(x, y) == IF y /\ ~x THEN FALSE ELSE TRUE

\* the lambda of Cond.eval: False if x and not y else True
CondLambda(x, y) == IF x /\ ~y THEN FALSE ELSE TRUE

RECURSIVE Eval(_, _)
\* t.eval(e): Python evaluates operands left to right, and "and" / "or" leave
\* the right operand unevaluated when the left one decides
Eval(t, e) ==
    CASE t.k = "None" -> Raised("AttributeError")
      [] t.k = "Prop" -> PropEval(t.name, e)
      [] t.k = "Not" ->
            LET x == Eval(t.r, e)
            IN  IF x.raised # "none" THEN x ELSE Returned(~x.value)
      [] t.k = "Conj" ->
            LET x == Eval(t.l, e)
            IN  IF x.raised # "none" \/ ~x.value THEN x ELSE Eval(t.r, e)
      [] t.k = "Disj" ->
            LET x == Eval(t.l, e)
            IN  IF x.raised # "none" \/ x.value THEN x ELSE Eval(t.r, e)
      [] t.k = "Cond" ->
            LET x == Eval(t.l, e)
                y == Eval(t.r, e)
            IN  IF x.raised # "none" THEN x
                ELSE IF y.raised # "none" THEN y
                ELSE Returned(CondLambda(x.value, y.value))
      [] t.k = "Bicond" ->
            LET x == Eval(t.l, e)
                y == Eval(t.r, e)
            IN  IF x.raised # "none" THEN x
                ELSE IF y.raised # "none" THEN y
                ELSE Returned(x.value = y.value)

(***************************************************************************)
(* table.  assume is the dict's items in iteration order; order is the     *)
(* order in which list(set(...)) happens to list the names.                *)
(***************************************************************************)
RECURSIVE Product(_)
\* itertools.product([False, True], repeat=n), in the order it yields
Product(n) ==
    IF n = 0 THEN << <<>> >>
    ELSE LET rest == Product(n - 1)
         IN  [i \in 1..(2 * Len(rest)) |->
                IF i <= Len(rest) THEN <<FALSE>> \o rest[i]
                ELSE <<TRUE>> \o rest[i - Len(rest)]]

\* the keys of assume, in iteration order
Keys(items) == [i \in 1..Len(items) |-> items[i][1]]

\* the elements of a sequence
Range(s) == {s[i] : i \in 1..Len(s)}

\* a removal that skips the keys it does not find: what C9 rules out
RemoveAssumedLenient(props, items) ==
    [ok |-> TRUE,
     props |-> SelectSeq(props, LAMBDA x : x \notin Range(Keys(items)))]

\* the loop of props.remove(x): the list without the keys of assume, or the
\* ValueError branch when a key is not in the list
RemoveAssumed(props, items) ==
    IF \E i \in 1..Len(items) : items[i][1] \notin Range(props)
    THEN [ok |-> FALSE, props |-> props]
    ELSE [ok |-> TRUE,
          props |-> SelectSeq(props, LAMBDA x : x \notin Range(Keys(items)))]

\* dict(pairs): a later pair replaces an earlier one with the same key
Dict(pairs) ==
    [key \in {pairs[i][1] : i \in 1..Len(pairs)} |->
        LET at == {i \in 1..Len(pairs) : pairs[i][1] = key}
        IN  pairs[CHOOSE i \in at : \A j \in at : i >= j][2]]

\* list(zip(props, x))
Zip(props, x) == [i \in 1..Len(props) |-> <<props[i], x[i]>>]

\* assignments in which the assumed values are placed first, so that a
\* free name enumerates over them: what C8 rules out
DictsAssumedFirst(free, items) ==
    LET combs == Product(Len(free) + Len(items))
    IN  [i \in 1..Len(combs) |->
            Dict(items \o Zip(free \o Keys(items), combs[i]))]

\* dicts: one assignment per combination, the assumed values appended
Dicts(free, items) ==
    LET combs == Product(Len(free))
    IN  [i \in 1..Len(combs) |-> Dict(Zip(free, combs[i]) \o items)]

RECURSIVE PrintRows(_, _, _)
\* the printing loop: a row per assignment, ended by the first eval that raises
PrintRows(expr, dicts, out) ==
    IF dicts = <<>> THEN out
    ELSE LET v == Eval(expr, Head(dicts))
         IN  IF v.raised # "none"
             THEN [out EXCEPT !.raised = v.raised]
             ELSE PrintRows(expr, Tail(dicts),
                    [out EXCEPT !.lines =
                        Append(@, [kind |-> "row", env |-> Head(dicts),
                                   result |-> v.value])])

\* table(expr, assume): the lines printed and the exception raised, if any
Table(expr, items, order) ==
    LET cut == RemoveAssumed(order, items)
    IN  IF ~cut.ok
        THEN [lines |-> << [kind |-> "error"] >>, raised |-> "none"]
        ELSE PrintRows(expr, Dicts(cut.props, items),
                [lines |-> << [kind |-> "header",
                               props |-> cut.props \o Keys(items)] >>,
                 raised |-> "none"])

\* the orders in which a list built from a set may hold its elements
Orders(S) ==
    {f \in [1..Cardinality(S) -> S] : \A i, j \in 1..Cardinality(S) :
        f[i] = f[j] => i = j}

(***************************************************************************)
(* The process that parses: top-level calls of parse(text), each run frame *)
(* by frame.  The default argument of parse is made once, when the module  *)
(* is loaded, and every call that names no stack works on that one list.   *)
(***************************************************************************)
Idle ==
    /\ formula = None
    /\ env = <<>>
    /\ assume = <<>>
    /\ phase = "off"
    /\ value = Returned(FALSE)
    /\ printed = [lines |-> <<>>, raised |-> "none"]

Init ==
    /\ dstack = <<None>>
    /\ pc = "idle"
    /\ exp = <<>>
    /\ depth = 0
    /\ result = None
    /\ outcome = "none"
    /\ input = <<>>
    /\ ncalls = 0
    /\ Idle

\* the running call, as a configuration
Config ==
    [pc |-> pc, exp |-> exp, stack |-> dstack, depth |-> depth,
     result |-> result, outcome |-> outcome]

Becomes(cfg) ==
    /\ pc' = cfg.pc
    /\ exp' = cfg.exp
    /\ dstack' = cfg.stack
    /\ depth' = cfg.depth
    /\ result' = cfg.result
    /\ outcome' = cfg.outcome

\* e1 = parse(text)
Call ==
    /\ pc \in {"idle", "done"}
    /\ ncalls < MaxCalls
    /\ \E text \in Inputs :
        /\ Becomes(Enter(text, dstack))
        /\ input' = text
    /\ ncalls' = ncalls + 1
    /\ UNCHANGED evars

\* a frame of parse runs to its return, its recursive call or an exception
Frame ==
    /\ pc = "descend"
    /\ Becomes(Descend(Config))
    /\ UNCHANGED <<input, ncalls>>
    /\ UNCHANGED evars

\* a frame of parse resumes with the result of its recursive call
Resume ==
    /\ pc = "unwind"
    /\ Becomes(Unwind(Config))
    /\ UNCHANGED <<input, ncalls>>
    /\ UNCHANGED evars

Next == Call \/ Frame \/ Resume

Spec == Init /\ [][Next]_vars

(***************************************************************************)
(* eval, applied to a tree and an assignment.                              *)
(***************************************************************************)
ParserIdle ==
    /\ dstack = <<None>>
    /\ pc = "idle"
    /\ exp = <<>>
    /\ depth = 0
    /\ result = None
    /\ outcome = "none"
    /\ input = <<>>
    /\ ncalls = 0

RECURSIVE FormulasOf(_, _, _, _)
\* the trees over `names` with exactly n operator nodes, binary ones of `kinds`
\* and, with negs, Not
FormulasOf(n, names, kinds, negs) ==
    IF n = 0 THEN {Prop(x) : x \in names}
    ELSE (IF negs THEN {Not(t) : t \in FormulasOf(n - 1, names, kinds, negs)}
          ELSE {})
         \cup UNION { {BinOp(c, l, r) :
                         c \in kinds,
                         l \in FormulasOf(i, names, kinds, negs),
                         r \in FormulasOf(n - 1 - i, names, kinds, negs)} :
                      i \in 0..(n - 1) }

FormulasUpTo(n, names, kinds, negs) ==
    UNION {FormulasOf(i, names, kinds, negs) : i \in 0..n}

EvalNames == {<<"p">>, <<"q">>}

\* the formula trees of at most MaxEvalOps operator nodes
EvalTrees == FormulasUpTo(MaxEvalOps, EvalNames, BinKinds, TRUE)

\* the assignments: each name true, false or absent
Assignments == UNION {[D -> BOOLEAN] : D \in SUBSET EvalNames}

InitEval ==
    /\ ParserIdle
    /\ formula \in EvalTrees
    /\ env \in Assignments
    /\ assume = <<>>
    /\ phase = "ready"
    /\ value = Returned(FALSE)
    /\ printed = [lines |-> <<>>, raised |-> "none"]

\* formula.eval(env)
EvalCall ==
    /\ phase = "ready"
    /\ value' = Eval(formula, env)
    /\ phase' = "done"
    /\ UNCHANGED <<formula, env, assume, printed>>
    /\ UNCHANGED pvars

NextEval == EvalCall

SpecEval == InitEval /\ [][NextEval]_vars

(***************************************************************************)
(* table, applied to a tree and a dict of assumed values.                  *)
(***************************************************************************)
\* names as parse builds them: the name pattern of simple has no "v" in it, so
\* the names table finds in str(expr) are the names of the tree
TableNames == {<<"p">>, <<"q">>, <<"r">>}

\* the formula trees of at most MaxTableOps operator nodes
TableTrees == FormulasUpTo(MaxTableOps, TableNames, {"Disj", "Cond"}, FALSE)

\* the keys a caller may fix: names of the formula or not
AssumeKeys == {<<"p">>, <<"q">>, <<"z">>}

\* the dicts of at most two assumed values, as their items in iteration order
Assumes ==
    {<<>>}
    \cup {<< <<a, x>> >> : a \in AssumeKeys, x \in BOOLEAN}
    \cup UNION { {<< <<a, x>>, <<b, y>> >> : b \in AssumeKeys \ {a},
                                             x \in BOOLEAN, y \in BOOLEAN} :
                 a \in AssumeKeys }

InitTable ==
    /\ ParserIdle
    /\ formula \in TableTrees
    /\ env = <<>>
    /\ assume \in Assumes
    /\ phase = "ready"
    /\ value = Returned(FALSE)
    /\ printed = [lines |-> <<>>, raised |-> "none"]

\* table(formula, assume)
TableCall ==
    /\ phase = "ready"
    /\ \E order \in Orders(FindAllNames(Str(formula))) :
        printed' = Table(formula, assume, order)
    /\ phase' = "done"
    /\ UNCHANGED <<formula, env, assume, value>>
    /\ UNCHANGED pvars

NextTable == TableCall

SpecTable == InitTable /\ [][NextTable]_vars

(***************************************************************************)
(* What the claims speak of.                                               *)
(***************************************************************************)
RECURSIVE TreeNames(_)
\* the proposition names of a tree, by traversal
TreeNames(t) ==
    CASE t.k = "None" -> {}
      [] t.k = "Prop" -> {t.name}
      [] t.k = "Not" -> TreeNames(t.r)
      [] OTHER -> TreeNames(t.l) \cup TreeNames(t.r)

RECURSIVE HasPlaceholder(_)
\* whether some node of the tree is the placeholder, a Prop named "tmp"
HasPlaceholder(t) ==
    CASE t.k = "None" -> FALSE
      [] t.k = "Prop" -> t.name = TMP
      [] t.k = "Not" -> HasPlaceholder(t.r)
      [] OTHER -> HasPlaceholder(t.l) \/ HasPlaceholder(t.r)

RECURSIVE Sem(_, _)
\* the truth value of a formula under an assignment of all its names
Sem(t, e) ==
    CASE t.k = "Prop" -> e[t.name]
      [] t.k = "Not" -> ~Sem(t.r, e)
      [] t.k = "Conj" -> Sem(t.l, e) /\ Sem(t.r, e)
      [] t.k = "Disj" -> Sem(t.l, e) \/ Sem(t.r, e)
      [] t.k = "Cond" -> (Sem(t.l, e) => Sem(t.r, e))
      [] t.k = "Bicond" -> (Sem(t.l, e) <=> Sem(t.r, e))

RECURSIVE StrictNames(_)
\* the names of a tree outside the right operand of every Conj and Disj
StrictNames(t) ==
    CASE t.k = "Prop" -> {t.name}
      [] t.k = "Not" -> StrictNames(t.r)
      [] t.k \in {"Conj", "Disj"} -> StrictNames(t.l)
      [] OTHER -> StrictNames(t.l) \cup StrictNames(t.r)

\* the first call of the process has ended
FirstDone == pc = "done" /\ ncalls = 1

\* the rows table printed
Rows == SelectSeq(printed.lines, LAMBDA line : line.kind = "row")

\* C1: for every well-formed text, parse returns the tree recursive descent
\* over the grammar returns
C1_ParseMatchesGrammar ==
    (FirstDone /\ WellFormed(input))
        => (outcome = "ok" /\ result = RD(input).t)

\* C2: for every text that is not well-formed, parse fails and returns nothing
C2_IllFormedRejected ==
    (FirstDone /\ ~WellFormed(input)) => outcome # "ok"

\* C3: a call of parse ends as the same call would end as the first call of
\* the process, whatever calls came before it
C3_CallsIndependent ==
    pc = "done" =>
        LET first == ParseFirst(input)
        IN  /\ outcome = first.outcome
            /\ outcome = "ok" => result = first.result

\* C4: for every well-formed text, parsing str() of the tree parse returned
\* returns an equal tree
C4_RoundTrip ==
    (FirstDone /\ WellFormed(input) /\ outcome = "ok")
        => LET again == ParseFirst(Str(result))
           IN  again.outcome = "ok" /\ again.result = result

\* C5: a tree parse returns holds no placeholder, and no subtree is left
\* waiting on the stack
C5_FullyResolved ==
    (FirstDone /\ outcome = "ok" /\ Truthy(result))
        => (~HasPlaceholder(result) /\ dstack = <<>>)

\* C10: every call of parse reaches a base case: no reduction makes the working
\* string longer than the text the call was given, and no call recurses on an
\* ever longer working string until the process is out of stack or memory
C10_ParseTerminates ==
    /\ pc \in {"descend", "unwind"} => Len(exp) <= Len(input)
    /\ outcome # "Exhausted"

\* C6: under an assignment of every name of the tree, eval returns the truth
\* value of the standard semantics
C6_EvalStandard ==
    (phase = "done" /\ TreeNames(formula) \subseteq DOMAIN env)
        => value = Returned(Sem(formula, env))

C6_Witness ==
    /\ phase = "done"
    /\ formula = BinOp("Cond", P, Not(Q))
    /\ TreeNames(formula) \subseteq DOMAIN env
    /\ value = Returned(FALSE)

\* C7 as claimed: eval raises whenever a name of the tree is absent from the
\* assignment
C7_AnyAbsentNameRaises ==
    (phase = "done" /\ ~(TreeNames(formula) \subseteq DOMAIN env))
        => value.raised = "KeyError"

\* C7 as amended: eval raises whenever a name the tree holds outside the right
\* operand of every conjunction and disjunction is absent from the assignment
C7_StrictAbsentNameRaises ==
    (phase = "done" /\ ~(StrictNames(formula) \subseteq DOMAIN env))
        => value.raised = "KeyError"

C7_Witness ==
    /\ phase = "done"
    /\ formula = BinOp("Cond", P, Q)
    /\ DOMAIN env = {<<"p">>}
    /\ ~env[<<"p">>]
    /\ value.raised = "KeyError"

\* C8: when every assumed key is a name of the formula, table prints 2^(n - k)
\* rows for n names and k assumed keys, no two rows with the same assignment,
\* every row giving each assumed key its assumed value
C8_TableRows ==
    (phase = "done" /\ Range(Keys(assume)) \subseteq TreeNames(formula))
        => /\ printed.raised = "none"
           /\ Len(Rows) = 2 ^ (Cardinality(TreeNames(formula)) - Len(assume))
           /\ \A i, j \in 1..Len(Rows) : Rows[i].env = Rows[j].env => i = j
           /\ \A i \in 1..Len(Rows) :
                /\ DOMAIN Rows[i].env = TreeNames(formula)
                /\ \A a \in 1..Len(assume) :
                     Rows[i].env[assume[a][1]] = assume[a][2]

C8_Witness ==
    /\ phase = "done"
    /\ Cardinality(TreeNames(formula)) = 3
    /\ assume = << <<(<<"p">>), TRUE>> >>
    /\ Len(Rows) = 4

\* C9: when some assumed key is not a name of the formula, table prints the
\* error and nothing else
C9_UnknownKeyRejected ==
    (phase = "done" /\ ~(Range(Keys(assume)) \subseteq TreeNames(formula)))
        => printed = [lines |-> << [kind |-> "error"] >>, raised |-> "none"]

C9_Witness ==
    /\ phase = "done"
    /\ <<"p">> \in TreeNames(formula)
    /\ assume = << <<(<<"p">>), TRUE>>, <<(<<"z">>), FALSE>> >>
    /\ printed.lines = << [kind |-> "error"] >>

====
